---- MODULE Spec2Model ----
(***************************************************************************)
(* am::parallel_task_queue<Task> (include/parallel_task_queue.h).          *)
(*                                                                         *)
(* The queue object, its scheduler thread, its worker slots with the task  *)
(* executors they run, caller threads using the submission API, one thread *)
(* using wait(), and the thread that destroys the queue.                   *)
(*                                                                         *)
(* Granularity.  Every access to an atomic (active_, hasWaiting_,          *)
(* running_) that is made without enqueueMtx_ is a step of its own.  A     *)
(* section that holds enqueueMtx_ is split only where another thread can   *)
(* observe the difference: between the change of waiting_ and the store to *)
(* hasWaiting_ (lock-free readers of hasWaiting_), and between a worker's  *)
(* acceptance of a task and ++running_ (the executor's --running_).        *)
(***************************************************************************)
EXTENDS Integers, Sequences, FiniteSets

\* ------------------------------------------------------------------ bounds
MaxConcurrency == 2
MaxTasks == 3
MaxBatch == 2
NumVals == 2

\* std::size_t is modelled as the integers modulo SizeModulus (2^30, since
\* TLC's integers are 32 bits wide: a negative int converts to a value far
\* above every count of the model, as it does with 64 bits)
SizeModulus == 1073741824

TaskVals == 1..NumVals
TaskIds == 1..MaxTasks

VARIABLES
    concurrency,    \* workers_.size()
    active,         \* active_
    hasWaiting,     \* hasWaiting_
    running,        \* running_ (std::atomic_int)
    waiting,        \* waiting_ : sequence of tasks [id, val]
    workers,        \* workers_ : slot -> [st, task]
    enqueueMtx,     \* owner of enqueueMtx_: "none" or the operation holding it
    schedPc,        \* position of the scheduler thread in schedule()
    slot,           \* try_assign_tasks' position in workers_
    waitPc,         \* position of the thread calling wait()
    waitSnap,       \* number of tasks submitted when wait() was called
    dtor,           \* position of the destroying thread in ~parallel_task_queue
    removeResult,   \* value the try_remove call in progress returns
    nextId,         \* number of tasks pushed so far (ids are 1..nextId)
    submitted,      \* number of tasks whose enqueue call has returned
    dispatchLog,    \* ids in the order in which workers accepted them
    finished,       \* ids whose task_() call has ended (returned or failed)
    reported,       \* ids whose executor has executed --running_
    removed,        \* tasks erased by try_remove
    cleared         \* ids discarded by clear()

vars == << concurrency, active, hasWaiting, running, waiting, workers,
           enqueueMtx, schedPc, slot, waitPc, waitSnap, dtor, removeResult,
           nextId, submitted, dispatchLog, finished, reported, removed,
           cleared >>

\* ----------------------------------------------------------------- helpers
Slots == 1..concurrency

IdleWorker == [st |-> "idle", task |-> 0]

\* the ids of the tasks of a sequence
IdsOf(q) == { q[k].id : k \in 1..Len(q) }

\* the tasks a call constructs from the values it is given; ids record the
\* order of submission
MakeTasks(vals, base) ==
    [k \in 1..Len(vals) |-> [id |-> base + k, val |-> vals[k]]]

\* the batches a caller may pass: sequences of at most MaxBatch values of V
BatchesOf(V) == UNION { [1..n -> V] : n \in 0..MaxBatch }

\* static_cast<std::size_t>(int)
ToSize(r) == r % SizeModulus

\* ------------------------------------------------------------ constructor
Init ==
    /\ concurrency \in 0..MaxConcurrency
    /\ active = TRUE
    /\ hasWaiting = FALSE
    /\ running = 0
    /\ waiting = << >>
    /\ workers = [w \in 1..concurrency |-> IdleWorker]
    /\ enqueueMtx = "none"
    /\ schedPc = "loop"
    /\ slot = 0
    /\ waitPc = "idle"
    /\ waitSnap = 0
    /\ dtor = "none"
    /\ removeResult = FALSE
    /\ nextId = 0
    /\ submitted = 0
    /\ dispatchLog = << >>
    /\ finished = {}
    /\ reported = {}
    /\ removed = {}
    /\ cleared = {}

\* ---------------------------------------------------------------- queries
\* active_.load() as it would be if the flag were read once and kept
ActiveNeverReread == TRUE

\* active_.load()
Active == active

\* concurrency()
Concurrency == concurrency

\* empty()
Empty == ~hasWaiting

\* running()
Running == ToSize(running)

\* busy() as it would be with the comparison off by one
BusyOffByOne == running + 1 >= concurrency

\* busy()
Busy == running >= concurrency

\* complete() as it would be with running() < 0 for running() < 1
CompleteOffByOne == Empty /\ (Running < 0)

\* complete(), evaluated by a caller that has acquired enqueueMtx_
Complete == Empty /\ (Running < 1)

\* waiting()
Waiting == Len(waiting)

\* -------------------------------------------------- submission operations
\* Callers use a queue only while no destruction has begun (spec section 7:
\* use after teardown is a precondition violation).
CallerMayCall == dtor = "none" /\ enqueueMtx = "none"

\* waiting_.push_back(t)
PushBack(q, t) == Append(q, t)

\* the range insertion as it would be if it put the tasks in one by one,
\* each at the front
InsertRangeOneByOne(q, ts) == [k \in 1..Len(ts) |-> ts[Len(ts) + 1 - k]] \o q

\* waiting_.insert(begin(waiting_), first, last)
InsertRange(q, ts) == ts \o q

\* waiting_.insert(waiting_.end(), il)
InsertList(q, ts) == q \o ts

\* Find as it would be if the search returned the last equal task
FindLast(q, v) ==
    IF \E k \in 1..Len(q) : q[k].val = v
    THEN CHOOSE k \in 1..Len(q) :
            /\ q[k].val = v
            /\ \A j \in (k + 1)..Len(q) : q[j].val # v
    ELSE 0

\* std::find(waiting_.begin(), waiting_.end(), t): the first position holding
\* a task equal to t, 0 standing for waiting_.end()
Find(q, v) ==
    IF \E k \in 1..Len(q) : q[k].val = v
    THEN CHOOSE k \in 1..Len(q) :
            /\ q[k].val = v
            /\ \A j \in 1..(k - 1) : q[j].val # v
    ELSE 0

\* erase as it would be if the task found were left in the queue
EraseNothing(q, k) == q

\* waiting_.erase(it)
Erase(q, k) == SubSeq(q, 1, k - 1) \o SubSeq(q, k + 1, Len(q))

\* enqueue(const task_type&), enqueue(task_type&&), enqueue_emplace(args...):
\* the lock is taken and the task appended
EnqueueBegin(v) ==
    /\ CallerMayCall
    /\ nextId < MaxTasks
    /\ waiting' = PushBack(waiting, [id |-> nextId + 1, val |-> v])
    /\ nextId' = nextId + 1
    /\ enqueueMtx' = "enqueue"
    /\ UNCHANGED << concurrency, active, hasWaiting, running, workers, schedPc,
                    slot, waitPc, waitSnap, dtor, removeResult, submitted,
                    dispatchLog, finished, reported, removed, cleared >>

\* enqueue(InputIterator first, InputIterator last)
EnqueueRangeBegin(vals) ==
    /\ CallerMayCall
    /\ nextId + Len(vals) <= MaxTasks
    /\ waiting' = InsertRange(waiting, MakeTasks(vals, nextId))
    /\ nextId' = nextId + Len(vals)
    /\ enqueueMtx' = "enqueue"
    /\ UNCHANGED << concurrency, active, hasWaiting, running, workers, schedPc,
                    slot, waitPc, waitSnap, dtor, removeResult, submitted,
                    dispatchLog, finished, reported, removed, cleared >>

\* enqueue(std::initializer_list<task_type> il)
EnqueueListBegin(vals) ==
    /\ CallerMayCall
    /\ nextId + Len(vals) <= MaxTasks
    /\ waiting' = InsertList(waiting, MakeTasks(vals, nextId))
    /\ nextId' = nextId + Len(vals)
    /\ enqueueMtx' = "enqueue"
    /\ UNCHANGED << concurrency, active, hasWaiting, running, workers, schedPc,
                    slot, waitPc, waitSnap, dtor, removeResult, submitted,
                    dispatchLog, finished, reported, removed, cleared >>

\* every enqueue form ends with hasWaiting_.store(true) and the release of
\* the lock; the call returns
EnqueueEnd ==
    /\ enqueueMtx = "enqueue"
    /\ hasWaiting' = TRUE
    /\ enqueueMtx' = "none"
    /\ submitted' = nextId
    /\ UNCHANGED << concurrency, active, running, waiting, workers, schedPc,
                    slot, waitPc, waitSnap, dtor, removeResult, nextId,
                    dispatchLog, finished, reported, removed, cleared >>

\* try_remove(t): the lock is taken, the first equal task is searched and
\* erased
TryRemoveBegin(v) ==
    /\ CallerMayCall
    /\ LET k == Find(waiting, v) IN
         IF k # 0
         THEN /\ waiting' = Erase(waiting, k)
              /\ removed' = removed \cup {waiting[k]}
              /\ removeResult' = TRUE
         ELSE /\ removeResult' = FALSE
              /\ UNCHANGED << waiting, removed >>
    /\ enqueueMtx' = "try_remove"
    /\ UNCHANGED << concurrency, active, hasWaiting, running, workers, schedPc,
                    slot, waitPc, waitSnap, dtor, nextId, submitted,
                    dispatchLog, finished, reported, cleared >>

\* the end of try_remove as it would be if a successful removal cleared the
\* flag without the test of waiting_.empty()
TryRemoveEndClearsFlag ==
    /\ enqueueMtx = "try_remove"
    /\ hasWaiting' = IF removeResult THEN FALSE ELSE hasWaiting
    /\ enqueueMtx' = "none"
    /\ removeResult' = FALSE
    /\ UNCHANGED << concurrency, active, running, waiting, workers, schedPc,
                    slot, waitPc, waitSnap, dtor, nextId, submitted,
                    dispatchLog, finished, reported, removed, cleared >>

\* try_remove(t): if(waiting_.empty()) hasWaiting_.store(false) on the
\* branch that erased; release of the lock and return
TryRemoveEnd ==
    /\ enqueueMtx = "try_remove"
    /\ hasWaiting' = IF removeResult /\ waiting = << >> THEN FALSE ELSE hasWaiting
    /\ enqueueMtx' = "none"
    /\ removeResult' = FALSE
    /\ UNCHANGED << concurrency, active, running, waiting, workers, schedPc,
                    slot, waitPc, waitSnap, dtor, nextId, submitted,
                    dispatchLog, finished, reported, removed, cleared >>

\* clear() as it would be if it also reset running_
ClearBeginResetsRunning ==
    /\ enqueueMtx = "none"
    /\ dtor \in {"none", "clear"}
    /\ waiting' = << >>
    /\ running' = 0
    /\ cleared' = cleared \cup IdsOf(waiting)
    /\ enqueueMtx' = "clear"
    /\ UNCHANGED << concurrency, active, hasWaiting, workers, schedPc, slot,
                    waitPc, waitSnap, dtor, removeResult, nextId, submitted,
                    dispatchLog, finished, reported, removed >>

\* clear() as it would be without the statement waiting_.clear()
ClearBeginKeepsTasks ==
    /\ enqueueMtx = "none"
    /\ dtor \in {"none", "clear"}
    /\ cleared' = cleared \cup IdsOf(waiting)
    /\ enqueueMtx' = "clear"
    /\ UNCHANGED << concurrency, active, hasWaiting, running, waiting, workers,
                    schedPc, slot, waitPc, waitSnap, dtor, removeResult,
                    nextId, submitted, dispatchLog, finished, reported,
                    removed >>

\* clear(), called by a caller or by the destructor (dtor = "clear"): the
\* lock is taken and waiting_ emptied
ClearBegin ==
    /\ enqueueMtx = "none"
    /\ dtor \in {"none", "clear"}
    /\ waiting' = << >>
    /\ cleared' = cleared \cup IdsOf(waiting)
    /\ enqueueMtx' = "clear"
    /\ UNCHANGED << concurrency, active, hasWaiting, running, workers, schedPc,
                    slot, waitPc, waitSnap, dtor, removeResult, nextId,
                    submitted, dispatchLog, finished, reported, removed >>

\* the end of clear() as it would be without hasWaiting_.store(false)
ClearEndKeepsFlag ==
    /\ enqueueMtx = "clear"
    /\ enqueueMtx' = "none"
    /\ dtor' = IF dtor = "clear" THEN "store" ELSE dtor
    /\ UNCHANGED << concurrency, active, hasWaiting, running, waiting, workers,
                    schedPc, slot, waitPc, waitSnap, removeResult, nextId,
                    submitted, dispatchLog, finished, reported, removed,
                    cleared >>

\* clear(): hasWaiting_.store(false), release of the lock and return; in the
\* destructor the next statement is active_.store(false)
ClearEnd ==
    /\ enqueueMtx = "clear"
    /\ hasWaiting' = FALSE
    /\ enqueueMtx' = "none"
    /\ dtor' = IF dtor = "clear" THEN "store" ELSE dtor
    /\ UNCHANGED << concurrency, active, running, waiting, workers, schedPc,
                    slot, waitPc, waitSnap, removeResult, nextId, submitted,
                    dispatchLog, finished, reported, removed, cleared >>

\* ------------------------------------------------------------ worker slots
\* task_thread<task_executor>: available() and operator()(queue, task) as the
\* scheduler uses them (spec section 4.2)

\* worker.available()
Available(w) == workers[w].st = "idle"

\* worker(this, std::move(waiting_.front())) on an idle worker: the worker
\* becomes busy and starts running the executor asynchronously
Accept(w, t) == [workers EXCEPT ![w] = [st |-> "busy", task |-> t.id]]

\* task_executor::operator(): task_() returns, then --queue_->running_
TaskReturn(w) ==
    /\ w \in Slots
    /\ workers[w].st = "busy"
    /\ running' = running - 1
    /\ finished' = finished \cup {workers[w].task}
    /\ reported' = reported \cup {workers[w].task}
    /\ workers' = [workers EXCEPT ![w] = [st |-> "done", task |-> 0]]
    /\ UNCHANGED << concurrency, active, hasWaiting, waiting, enqueueMtx,
                    schedPc, slot, waitPc, waitSnap, dtor, removeResult,
                    nextId, submitted, dispatchLog, removed, cleared >>

\* task_executor::operator(): task_() raises; the statement --queue_->running_
\* is skipped.  What becomes of the worker is the worker's concern: it is
\* idle again, or its thread is gone.
TaskFail(w) ==
    /\ w \in Slots
    /\ workers[w].st = "busy"
    /\ finished' = finished \cup {workers[w].task}
    /\ \E st \in {"idle", "dead"} :
          workers' = [workers EXCEPT ![w] = [st |-> st, task |-> 0]]
    /\ UNCHANGED << concurrency, active, hasWaiting, running, waiting,
                    enqueueMtx, schedPc, slot, waitPc, waitSnap, dtor,
                    removeResult, nextId, submitted, dispatchLog, reported,
                    removed, cleared >>

\* the worker returns to idle after its executor has returned
WorkerIdle(w) ==
    /\ w \in Slots
    /\ workers[w].st = "done"
    /\ workers' = [workers EXCEPT ![w] = IdleWorker]
    /\ UNCHANGED << concurrency, active, hasWaiting, running, waiting,
                    enqueueMtx, schedPc, slot, waitPc, waitSnap, dtor,
                    removeResult, nextId, submitted, dispatchLog, finished,
                    reported, removed, cleared >>

\* --------------------------------------------------------------- scheduler
\* the variables no scheduler step changes
SchedFrame ==
    UNCHANGED << concurrency, active, dtor, removeResult, nextId, submitted,
                 finished, reported, removed, cleared, waitSnap >>

\* schedule(): while(active_.load())
SchedLoop ==
    /\ schedPc = "loop"
    /\ schedPc' = IF Active THEN "chkEmpty" ELSE "exit"
    /\ SchedFrame
    /\ UNCHANGED << hasWaiting, running, waiting, workers, enqueueMtx, slot,
                    waitPc, dispatchLog >>

\* schedule(): if(!empty() ...
SchedCheckEmpty ==
    /\ schedPc = "chkEmpty"
    /\ schedPc' = IF ~Empty THEN "chkBusy" ELSE "chkRunning"
    /\ SchedFrame
    /\ UNCHANGED << hasWaiting, running, waiting, workers, enqueueMtx, slot,
                    waitPc, dispatchLog >>

\* schedule(): ... && !busy()) try_assign_tasks(); the scan starts at the
\* first worker
SchedCheckBusy ==
    /\ schedPc = "chkBusy"
    /\ IF ~Busy
       THEN schedPc' = "scan" /\ slot' = 1
       ELSE schedPc' = "chkRunning" /\ slot' = slot
    /\ SchedFrame
    /\ UNCHANGED << hasWaiting, running, waiting, workers, enqueueMtx, waitPc,
                    dispatchLog >>

\* schedule(): else if(running() < 1)
SchedCheckRunning ==
    /\ schedPc = "chkRunning"
    /\ schedPc' = IF Running < 1 THEN "notify" ELSE "loop"
    /\ SchedFrame
    /\ UNCHANGED << hasWaiting, running, waiting, workers, enqueueMtx, slot,
                    waitPc, dispatchLog >>

\* schedule(): lock; if(empty() && (running() < 1)) isDone_.notify_all();
\* a thread blocked in isDone_.wait is woken
SchedNotify ==
    /\ schedPc = "notify"
    /\ enqueueMtx = "none"
    /\ waitPc' = IF Complete /\ waitPc = "blocked" THEN "chkEmpty" ELSE waitPc
    /\ schedPc' = "loop"
    /\ SchedFrame
    /\ UNCHANGED << hasWaiting, running, waiting, workers, enqueueMtx, slot,
                    dispatchLog >>

\* where try_assign_tasks goes on after worker s: the next worker, or the
\* end of the for loop and back to schedule()'s loop
AfterSlot(s) == IF s < concurrency THEN "scan" ELSE "loop"

\* try_assign_tasks(): if(worker.available())
SchedScan ==
    /\ schedPc = "scan"
    /\ IF Available(slot)
       THEN schedPc' = "assign" /\ slot' = slot
       ELSE schedPc' = AfterSlot(slot) /\ slot' = (IF slot < concurrency THEN slot + 1 ELSE 0)
    /\ SchedFrame
    /\ UNCHANGED << hasWaiting, running, waiting, workers, enqueueMtx, waitPc,
                    dispatchLog >>

\* try_assign_tasks(): the lock is taken; on an empty waiting_ the flag is
\* cleared and the function returns; otherwise the front task is handed to
\* the worker, which accepts it (the scheduler is the only assigner and has
\* just seen the worker idle) and starts running it
SchedAssign ==
    /\ schedPc = "assign"
    /\ enqueueMtx = "none"
    /\ IF waiting = << >>
       THEN /\ hasWaiting' = FALSE
            /\ schedPc' = "loop"
            /\ slot' = 0
            /\ UNCHANGED << workers, dispatchLog, enqueueMtx >>
       ELSE /\ workers' = Accept(slot, Head(waiting))
            /\ dispatchLog' = Append(dispatchLog, Head(waiting).id)
            /\ enqueueMtx' = "scheduler"
            /\ schedPc' = "increment"
            /\ UNCHANGED << hasWaiting, slot >>
    /\ SchedFrame
    /\ UNCHANGED << running, waiting, waitPc >>

\* the rejected assignment as it would be if the task offered were given up
SchedRejectDropsTask ==
    /\ schedPc = "assign"
    /\ enqueueMtx = "none"
    /\ waiting # << >>
    /\ waiting' = Tail(waiting)
    /\ schedPc' = AfterSlot(slot)
    /\ slot' = (IF slot < concurrency THEN slot + 1 ELSE 0)
    /\ SchedFrame
    /\ UNCHANGED << hasWaiting, running, workers, enqueueMtx, waitPc,
                    dispatchLog >>

\* the rejected assignment as it would be if ++running_ came before the
\* test of the worker's answer
SchedRejectCounts ==
    /\ schedPc = "assign"
    /\ enqueueMtx = "none"
    /\ waiting # << >>
    /\ running' = running + 1
    /\ schedPc' = AfterSlot(slot)
    /\ slot' = (IF slot < concurrency THEN slot + 1 ELSE 0)
    /\ SchedFrame
    /\ UNCHANGED << hasWaiting, waiting, workers, enqueueMtx, waitPc,
                    dispatchLog >>

\* try_assign_tasks(): the lock is taken, waiting_ is not empty and
\* worker(this, std::move(waiting_.front())) returns false: the body of the
\* if is skipped, the lock released and the for loop goes on with the next
\* worker.  Whether a worker answers false is the worker's decision (spec
\* section 4.2: when it is no longer available at call time); the queue
\* only reads the answer.
SchedReject ==
    /\ schedPc = "assign"
    /\ enqueueMtx = "none"
    /\ waiting # << >>
    /\ schedPc' = AfterSlot(slot)
    /\ slot' = (IF slot < concurrency THEN slot + 1 ELSE 0)
    /\ SchedFrame
    /\ UNCHANGED << hasWaiting, running, waiting, workers, enqueueMtx, waitPc,
                    dispatchLog >>

\* try_assign_tasks(): ++running_; waiting_.pop_front(); the flag is cleared
\* and the pass ends if waiting_ is now empty; the pass ends if busy(); the
\* lock is released
SchedIncrement ==
    /\ schedPc = "increment"
    /\ SchedFrame
    /\ running' = running + 1
    /\ waiting' = Tail(waiting)
    /\ enqueueMtx' = "none"
    /\ IF Tail(waiting) = << >>
       THEN hasWaiting' = FALSE /\ schedPc' = "loop" /\ slot' = 0
       ELSE /\ hasWaiting' = hasWaiting
            /\ IF Busy'
               THEN schedPc' = "loop" /\ slot' = 0
               ELSE schedPc' = AfterSlot(slot) /\ slot' = (IF slot < concurrency THEN slot + 1 ELSE 0)
    /\ UNCHANGED << workers, waitPc, dispatchLog >>

\* -------------------------------------------------------------------- wait
\* the variables no step of wait() changes
WaitFrame ==
    UNCHANGED << concurrency, active, hasWaiting, running, waiting, workers,
                 enqueueMtx, schedPc, slot, dtor, removeResult, nextId,
                 submitted, dispatchLog, finished, reported, removed, cleared >>

\* wait() is called: waitMtx_ is taken
WaitCall ==
    /\ waitPc = "idle"
    /\ dtor = "none"
    /\ waitPc' = "chkEmpty"
    /\ waitSnap' = submitted
    /\ WaitFrame

\* wait(): while(!empty() ...
WaitCheckEmpty ==
    /\ waitPc = "chkEmpty"
    /\ waitPc' = IF ~Empty THEN "toBlock" ELSE "chkRunning"
    /\ UNCHANGED waitSnap
    /\ WaitFrame

\* wait(): ... || running()); the loop ends and wait() returns when both
\* reads gave false
WaitCheckRunning ==
    /\ waitPc = "chkRunning"
    /\ waitPc' = IF Running # 0 THEN "toBlock" ELSE "returned"
    /\ UNCHANGED waitSnap
    /\ WaitFrame

\* wait(): isDone_.wait(lock) blocks the thread
WaitBlock ==
    /\ waitPc = "toBlock"
    /\ waitPc' = "blocked"
    /\ UNCHANGED waitSnap
    /\ WaitFrame

\* isDone_.wait(lock) may return without a notification
SpuriousWake ==
    /\ waitPc = "blocked"
    /\ waitPc' = "chkEmpty"
    /\ UNCHANGED waitSnap
    /\ WaitFrame

\* the caller goes on after wait() has returned
WaitDone ==
    /\ waitPc = "returned"
    /\ waitPc' = "idle"
    /\ waitSnap' = 0
    /\ WaitFrame

\* -------------------------------------------------------------- destructor
\* the variables no step of the destructor's own statements changes
DtorFrame ==
    UNCHANGED << concurrency, hasWaiting, running, waiting, workers,
                 enqueueMtx, schedPc, slot, waitPc, waitSnap, removeResult,
                 nextId, submitted, dispatchLog, finished, reported, removed,
                 cleared >>

\* ~parallel_task_queue() begins, with no call of another thread in progress;
\* its first statement is clear()
DtorStart ==
    /\ dtor = "none"
    /\ enqueueMtx \in {"none", "scheduler"}
    /\ waitPc \in {"idle", "returned"}
    /\ dtor' = "clear"
    /\ UNCHANGED active
    /\ DtorFrame

\* ~parallel_task_queue(): active_.store(false)
DtorStore ==
    /\ dtor = "store"
    /\ active' = FALSE
    /\ dtor' = "join"
    /\ DtorFrame

\* ~parallel_task_queue(): scheduler_.join() returns once schedule() has
\* returned
DtorJoin ==
    /\ dtor = "join"
    /\ schedPc = "exit"
    /\ dtor' = "joined"
    /\ UNCHANGED active
    /\ DtorFrame

\* ----------------------------------------------------------- specification
\* the enqueue forms, called with tasks whose values are taken from V
EnqueueNext(V) ==
    \/ \E v \in V : EnqueueBegin(v)
    \/ \E vals \in BatchesOf(V) : EnqueueRangeBegin(vals)
    \/ \E vals \in BatchesOf(V) : EnqueueListBegin(vals)
    \/ EnqueueEnd

CallerNext ==
    \/ EnqueueNext(TaskVals)
    \/ \E v \in TaskVals : TryRemoveBegin(v)
    \/ TryRemoveEnd
    \/ ClearBegin
    \/ ClearEnd

SchedNext ==
    \/ SchedLoop
    \/ SchedCheckEmpty
    \/ SchedCheckBusy
    \/ SchedCheckRunning
    \/ SchedNotify
    \/ SchedScan
    \/ SchedAssign
    \/ SchedIncrement

WorkerNext ==
    \/ \E w \in Slots : TaskReturn(w)
    \/ \E w \in Slots : WorkerIdle(w)

WaitNext ==
    \/ WaitCall
    \/ WaitCheckEmpty
    \/ WaitCheckRunning
    \/ WaitBlock
    \/ WaitDone

DtorNext ==
    \/ DtorStart
    \/ DtorStore
    \/ DtorJoin

Next ==
    \/ CallerNext
    \/ SchedNext
    \/ WorkerNext
    \/ \E w \in Slots : TaskFail(w)
    \/ WaitNext
    \/ SpuriousWake
    \/ DtorNext

Spec == Init /\ [][Next]_vars

\* Only try_remove reads the value of a task (Find).  In a specification
\* without try_remove the tasks are therefore submitted with one value.
AnyVal == {1}

\* The queue in use with tasks that all return: submissions through every
\* enqueue form, the scheduler, the workers and a thread calling wait().
\* Fairness: the scheduler thread, each worker's task and return to idle, the
\* thread inside wait() while it is not blocked, and a caller that holds the
\* lock all keep being scheduled.  Nothing obliges a caller to submit, to
\* call wait(), or a blocked wait to wake up without a notification.
WaitStep == WaitCheckEmpty \/ WaitCheckRunning \/ WaitBlock

NextLive ==
    \/ EnqueueNext(AnyVal)
    \/ SchedNext
    \/ WorkerNext
    \/ WaitNext
    \/ SpuriousWake

FairLive ==
    /\ WF_vars(SchedNext)
    /\ WF_vars(EnqueueEnd)
    /\ WF_vars(WaitStep)
    /\ \A w \in 1..MaxConcurrency : WF_vars(TaskReturn(w)) /\ WF_vars(WorkerIdle(w))

SpecLive == Init /\ [][NextLive]_vars /\ FairLive

\* The queue in use and then destroyed: submissions, clear(), the scheduler,
\* workers whose tasks may return or never end, and the destructor.
\* (A thread inside wait() writes nothing the other threads read; a task
\* that fails leaves the scheduler what a task that never ends leaves it,
\* a RunningCount that stays up.)
\* Fairness: the scheduler thread, the destroying thread and a caller that
\* holds the lock keep being scheduled; no task is obliged to end.
DtorClear == dtor = "clear" /\ ClearBegin

NextTeardown ==
    \/ EnqueueNext(AnyVal)
    \/ ClearBegin
    \/ ClearEnd
    \/ SchedNext
    \/ WorkerNext
    \/ DtorNext

FairTeardown ==
    /\ WF_vars(SchedNext)
    /\ WF_vars(EnqueueEnd)
    /\ WF_vars(DtorClear)
    /\ WF_vars(ClearEnd)
    /\ WF_vars(DtorStore)
    /\ WF_vars(DtorJoin)

SpecTeardown == Init /\ [][NextTeardown]_vars /\ FairTeardown

\* The submission operations against the scheduler and the workers: what a
\* claim about try_remove involves.  (Neither a thread inside wait() nor the
\* destructor's own statements write anything try_remove or the dispatch of
\* a task reads.)
NextCalls ==
    \/ CallerNext
    \/ SchedNext
    \/ WorkerNext

SpecCalls == Init /\ [][NextCalls]_vars

\* The submission operations with tasks of one value, the scheduler and the
\* workers: what a claim involves that does not depend on which of several
\* equal tasks try_remove takes.
NextSubmit ==
    \/ EnqueueNext(AnyVal)
    \/ \E v \in AnyVal : TryRemoveBegin(v)
    \/ TryRemoveEnd
    \/ ClearBegin
    \/ ClearEnd
    \/ SchedNext
    \/ WorkerNext

SpecSubmit == Init /\ [][NextSubmit]_vars

\* The queue in use with clear() and a thread calling wait(): tasks
\* submitted one by one, clear(), the scheduler, workers whose tasks return,
\* and wait() with its spurious wakeups.
NextClearWait ==
    \/ \E v \in AnyVal : EnqueueBegin(v)
    \/ EnqueueEnd
    \/ ClearBegin
    \/ ClearEnd
    \/ SchedNext
    \/ WorkerNext
    \/ WaitNext
    \/ SpuriousWake

SpecClearWait == Init /\ [][NextClearWait]_vars

\* The submission operations, the scheduler and the workers, with workers
\* that may answer false to an assignment.  (The tasks are submitted one
\* by one and with one value: where a batch is inserted and which of several
\* equal tasks try_remove takes is not what a claim about assignments or
\* about RunningCount involves.)
\* Fairness: the scheduler thread, each worker's task and return to idle,
\* and a caller that holds the lock keep being scheduled; nothing obliges a
\* worker to accept.
NextReject ==
    \/ \E v \in AnyVal : EnqueueBegin(v)
    \/ EnqueueEnd
    \/ \E v \in AnyVal : TryRemoveBegin(v)
    \/ TryRemoveEnd
    \/ ClearBegin
    \/ ClearEnd
    \/ SchedNext
    \/ SchedReject
    \/ WorkerNext

FairReject ==
    /\ WF_vars(SchedNext \/ SchedReject)
    /\ WF_vars(EnqueueEnd)
    /\ WF_vars(TryRemoveEnd)
    /\ WF_vars(ClearEnd)
    /\ \A w \in 1..MaxConcurrency : WF_vars(TaskReturn(w)) /\ WF_vars(WorkerIdle(w))

SpecReject == Init /\ [][NextReject]_vars /\ FairReject

\* A queue whose tasks are submitted one by one, with the scheduler, the
\* workers and a thread calling wait(): what the wakeup of a blocked wait()
\* involves.  Fairness as in SpecLive.
NextWake ==
    \/ \E v \in AnyVal : EnqueueBegin(v)
    \/ EnqueueEnd
    \/ SchedNext
    \/ WorkerNext
    \/ WaitNext
    \/ SpuriousWake

SpecWake == Init /\ [][NextWake]_vars /\ FairLive

\* ------------------------------------------------------------------ claims
\* the ids a sequence holds, as a set
Dispatched == { dispatchLog[k] : k \in 1..Len(dispatchLog) }

\* the ids of the tasks some worker is executing
InFlight == { workers[w].task : w \in { x \in Slots : workers[x].st = "busy" } }

\* q2 holds the tasks of q1 in the order of q1 (and possibly others)
KeepsOrder(q1, q2) ==
    \A i, j \in 1..Len(q1) :
        i < j => \E a, b \in 1..Len(q2) : a < b /\ q2[a] = q1[i] /\ q2[b] = q1[j]

\* C2: FIFO dispatch.  Whenever the scheduler hands a task to a worker, no
\* task submitted before it is still waiting (ids are the order of
\* submission), and a submission keeps the order of the tasks that were
\* already waiting.
C2_FifoDispatch ==
    [][ /\ (Len(dispatchLog') > Len(dispatchLog)) =>
              \A k \in 1..Len(waiting) :
                  waiting[k].id >= dispatchLog'[Len(dispatchLog')]
        /\ (nextId' > nextId) => KeepsOrder(waiting, waiting') ]_vars

\* C3: RunningCount is never negative.
C3_RunningNonNegative == running >= 0

\* C4: the value running() returns never exceeds concurrency().
C4_RunningAtMostConcurrency == Running <= Concurrency

\* C5: when wait() has returned, no task submitted before the call is still
\* waiting or still running on a worker.
C5_WaitReturnsWhenComplete ==
    waitPc = "returned" =>
        \A id \in 1..waitSnap : id \notin IdsOf(waiting) /\ id \notin InFlight

\* C6: whenever a caller can evaluate complete() (the lock is free), it is
\* true if and only if no task is waiting and RunningCount is zero.
C6_CompleteIffIdle ==
    enqueueMtx = "none" => (Complete <=> (Waiting = 0 /\ running = 0))

\* C8: every task whose execution has ended, by returning or by failing, has
\* had RunningCount decremented for it.
C8_FailedTaskIsReported == finished \subseteq reported

\* C9: every constructed queue has at least one worker.
C9_ConcurrencyAtLeastOne == Concurrency >= 1

\* q with the element at position k taken out, the others in their places
Without(q, k) ==
    [j \in 1..(Len(q) - 1) |-> IF j < k THEN q[j] ELSE q[j + 1]]

\* C7: try_remove(t) returns true exactly when a task equal to t is waiting
\* when the call holds the lock; it then takes out the first such task and
\* leaves every other waiting task in its place; otherwise it returns false
\* and changes neither the waiting queue nor HasWaitingFlag nor
\* RunningCount; and no task handed to a worker is one that try_remove has
\* removed.
C7_TryRemove ==
    /\ [][ (enqueueMtx' = "try_remove") =>
             \A v \in TaskVals : TryRemoveBegin(v) =>
                LET hits == { k \in 1..Len(waiting) : waiting[k].val = v } IN
                /\ removeResult' = (hits # {})
                /\ hits # {} =>
                     \E k \in hits :
                         /\ \A j \in hits : k <= j
                         /\ waiting' = Without(waiting, k)
                /\ hits = {} =>
                     /\ waiting' = waiting
                     /\ hasWaiting' = hasWaiting
                     /\ running' = running ]_vars
    /\ [][ (TryRemoveEnd /\ ~removeResult) =>
             /\ waiting' = waiting
             /\ hasWaiting' = hasWaiting
             /\ running' = running ]_vars
    /\ [][ (Len(dispatchLog') > Len(dispatchLog)) =>
             \A t \in removed : t.id # dispatchLog'[Len(dispatchLog')] ]_vars

\* C7 witness: a try_remove call that holds the lock has erased the first of
\* two equal waiting tasks; the other one is still waiting behind a task
\* that is not equal to them
C7_Witness ==
    /\ Concurrency >= 1
    /\ enqueueMtx = "try_remove"
    /\ removeResult
    /\ Len(waiting) >= 2
    /\ \E t \in removed :
          /\ waiting[1].val # t.val
          /\ waiting[2].val = t.val
          /\ t.id < waiting[2].id

\* no id occurs twice in the sequence
NoDuplicates(q) == \A i, j \in 1..Len(q) : q[i] = q[j] => i = j

\* the callers make finitely many enqueue calls: from some point on no
\* enqueue call is in progress
SubmissionsEnd == <>[](enqueueMtx # "enqueue")

\* C1: with at least one worker and tasks that all return, under fair
\* scheduling no task is started twice and, the submissions being finitely
\* many, every submitted task is eventually started and a wait() that has
\* been called eventually returns.
C1_AllTasksRunOnce ==
    /\ [](NoDuplicates(dispatchLog))
    /\ SubmissionsEnd =>
          /\ \A id \in TaskIds :
                (Concurrency >= 1 /\ id <= submitted) ~> (id \in Dispatched)
          /\ (Concurrency >= 1 /\ waitPc # "idle") ~> (waitPc = "returned")

\* C1 witness: two workers, all MaxTasks tasks submitted by several calls
\* and started, and a wait() called after the last submission has returned
C1_Witness ==
    /\ Concurrency >= 2
    /\ submitted = MaxTasks
    /\ Dispatched = TaskIds
    /\ waitPc = "returned"
    /\ waitSnap = MaxTasks

\* C10: once the destructor has started, the scheduler loop eventually sees
\* the cleared ActiveFlag and exits and the destructor's join returns,
\* whatever is waiting or in flight; and a queue destroyed with nothing
\* submitted has executed nothing.
C10_TeardownTerminates ==
    /\ (dtor # "none") ~> (dtor = "joined" /\ schedPc = "exit")
    /\ [](dtor = "joined" /\ nextId = 0 => dispatchLog = << >>)

\* C10 witness: the join has returned for a queue whose destructor discarded
\* waiting tasks while a task was, and still is, in flight
C10_Witness ==
    /\ dtor = "joined"
    /\ cleared # {}
    /\ InFlight # {}

\* the destructor's clear() has taken the lock, or has returned
DtorHasCleared ==
    \/ dtor = "clear" /\ enqueueMtx = "clear"
    \/ dtor \in {"store", "join", "joined"}

\* C11: the destructor's clear() discards every waiting task; from the
\* moment it holds the lock no task is handed to a worker any more, also
\* while the scheduler is still active; and no task a clear() has discarded
\* has ever been handed to a worker.
C11_TeardownDiscardsWaiting ==
    /\ [][ (dtor = "clear" /\ enqueueMtx' = "clear") =>
             /\ waiting' = << >>
             /\ IdsOf(waiting) \subseteq cleared' ]_vars
    /\ [][ DtorHasCleared' => dispatchLog' = dispatchLog ]_vars
    /\ [](cleared \cap Dispatched = {})

\* C11 witness: the destructor's clear() has discarded two waiting tasks and
\* returned, ActiveFlag is still set, and the scheduler, which saw the queue
\* non-empty and a worker idle before, is about to take the front task
C11_Witness ==
    /\ dtor = "store"
    /\ active
    /\ Cardinality(cleared) >= 2
    /\ schedPc = "assign"
    /\ enqueueMtx = "none"

\* nothing is waiting, the flag says so, nothing is in flight and no enqueue
\* call is in progress
Quiet ==
    /\ waiting = << >>
    /\ ~hasWaiting
    /\ running = 0
    /\ InFlight = {}
    /\ enqueueMtx # "enqueue"

\* C12: a clear() that ends while no task is in flight leaves the queue
\* quiet; the queue stays quiet as long as no enqueue call begins; and a
\* wait() that makes its two reads on a quiet queue goes from the first read
\* to the second and from the second to its return, never to the blocking
\* isDone_.wait.
C12_ClearThenWaitReturns ==
    /\ [][ (enqueueMtx = "clear" /\ enqueueMtx' = "none" /\ running = 0
              /\ InFlight = {}) => Quiet' ]_vars
    /\ [][ (Quiet /\ enqueueMtx' # "enqueue") => Quiet' ]_vars
    /\ [][ (Quiet /\ waitPc' # waitPc) =>
             /\ waitPc = "chkEmpty" => waitPc' = "chkRunning"
             /\ waitPc = "chkRunning" => waitPc' = "returned" ]_vars

\* C12 witness: with a worker present, two submitted tasks were discarded by
\* clear() before any task was handed to a worker, nothing was submitted
\* since, and a wait() called after the submissions has returned
C12_Witness ==
    /\ Concurrency >= 1
    /\ Quiet
    /\ enqueueMtx = "none"
    /\ Cardinality(cleared) >= 2
    /\ nextId = Cardinality(cleared)
    /\ dispatchLog = << >>
    /\ waitPc = "returned"
    /\ waitSnap = nextId

\* the ids try_remove has taken out
RemovedIds == { t.id : t \in removed }

\* the ids that are waiting and have not been handed to a worker (between a
\* worker's acceptance and pop_front the front task is still in waiting_)
WaitingIds ==
    IF schedPc = "increment" THEN IdsOf(Tail(waiting)) ELSE IdsOf(waiting)

\* a step in which a worker rejects the task offered to it
RejectStep ==
    /\ schedPc = "assign"
    /\ waiting # << >>
    /\ schedPc' \notin {"assign", "increment"}

\* the callers make finitely many calls: from some point on no caller holds
\* the lock
CallsEnd == <>[](enqueueMtx \in {"none", "scheduler"})

\* C13: a rejected assignment changes neither the waiting queue nor
\* HasWaitingFlag nor RunningCount nor any worker nor the record of started
\* tasks, and the scheduler goes on with the next slot or the next pass;
\* every task pushed is at all times in exactly one place (waiting, started,
\* removed or cleared) and is started at most once; the task a worker is
\* offered and accepts is the one at the front; and with at least one worker
\* and callers whose calls are finitely many, the scheduler comes to offer
\* the front task (again) as long as the queue is not empty.
C13_RejectedAssignmentLossless ==
    /\ [][ RejectStep =>
             /\ waiting' = waiting
             /\ hasWaiting' = hasWaiting
             /\ running' = running
             /\ workers' = workers
             /\ dispatchLog' = dispatchLog
             /\ schedPc' = (IF slot < concurrency THEN "scan" ELSE "loop") ]_vars
    /\ [](/\ NoDuplicates(dispatchLog)
          /\ Len(waiting) = Cardinality(IdsOf(waiting))
          /\ WaitingIds \cup Dispatched \cup RemovedIds \cup cleared = 1..nextId
          /\ WaitingIds \cap Dispatched = {}
          /\ WaitingIds \cap (RemovedIds \cup cleared) = {}
          /\ Dispatched \cap (RemovedIds \cup cleared) = {})
    /\ [][ (schedPc = "assign" /\ schedPc' = "increment") =>
             dispatchLog' = Append(dispatchLog, Head(waiting).id) ]_vars
    /\ CallsEnd =>
          ((Concurrency >= 1 /\ waiting # << >> /\ schedPc # "assign")
              ~> (schedPc = "assign" \/ waiting = << >>))

\* C13 witness: a task that was offered and rejected (the scheduler is past
\* the first slot, whose worker is idle, and nothing was started, removed or
\* cleared) is at the front of the queue and is offered to the second worker
C13_Witness ==
    /\ Concurrency >= 2
    /\ schedPc = "assign"
    /\ slot = 2
    /\ workers[1].st = "idle"
    /\ dispatchLog = << >>
    /\ removed = {}
    /\ cleared = {}
    /\ nextId = 1
    /\ waiting # << >>
    /\ hasWaiting

\* every worker is occupied by a task that has not finished
AllWorkersBusy == \A w \in Slots : workers[w].st = "busy"

\* C14: while every worker is occupied by an unfinished task no task is
\* handed to a worker and every waiting task stays waiting unless a caller
\* removes or clears it; a try_remove called in that situation for a value
\* some waiting task has returns true and takes out a task of that value;
\* and no task try_remove has taken out is ever started.
C14_NoDispatchWhileAllBusy ==
    /\ [][ AllWorkersBusy =>
             /\ dispatchLog' = dispatchLog
             /\ WaitingIds \subseteq (WaitingIds' \cup RemovedIds' \cup cleared') ]_vars
    /\ [][ (AllWorkersBusy /\ enqueueMtx' = "try_remove") =>
             \A v \in TaskVals :
                (TryRemoveBegin(v) /\ \E k \in 1..Len(waiting) : waiting[k].val = v) =>
                    /\ removeResult'
                    /\ \E t \in removed' : /\ t.val = v
                                            /\ t.id \in IdsOf(waiting)
                                            /\ t.id \notin IdsOf(waiting') ]_vars
    /\ [](RemovedIds \cap Dispatched = {})

\* C14 witness: every worker is occupied, and the task submitted last, while
\* they were, has been taken out by a try_remove that returns true
C14_Witness ==
    /\ Concurrency >= 2
    /\ AllWorkersBusy
    /\ Len(dispatchLog) = Concurrency
    /\ enqueueMtx = "try_remove"
    /\ removeResult
    /\ submitted = MaxTasks
    /\ RemovedIds = {MaxTasks}
    /\ waiting = << >>

\* the position of the task with the given id in q
PosOf(q, id) == CHOOSE k \in 1..Len(q) : q[k].id = id

\* C15: a submission puts its tasks into the waiting queue in the one step
\* in which it takes the lock, at contiguous positions and in the order of
\* the batch, with the tasks that were waiting unchanged around them; no
\* step changes the relative order of tasks that stay waiting; and the task
\* handed to a worker is always the one at the front.  Hence the tasks of a
\* batch are started in batch order.
C15_BatchAtomicOrdered ==
    /\ [][ (nextId' > nextId) =>
             /\ enqueueMtx = "none" /\ enqueueMtx' = "enqueue"
             /\ Len(waiting') = Len(waiting) + (nextId' - nextId)
             /\ \E p \in 0..Len(waiting) :
                   /\ \A k \in 1..(nextId' - nextId) : waiting'[p + k].id = nextId + k
                   /\ \A j \in 1..p : waiting'[j] = waiting[j]
                   /\ \A j \in (p + 1)..Len(waiting) :
                         waiting'[j + (nextId' - nextId)] = waiting[j] ]_vars
    /\ [][ \A i, j \in 1..Len(waiting') :
              (i < j /\ waiting'[i].id \in IdsOf(waiting)
                     /\ waiting'[j].id \in IdsOf(waiting)) =>
                  PosOf(waiting, waiting'[i].id) < PosOf(waiting, waiting'[j].id) ]_vars
    /\ [][ (Len(dispatchLog') > Len(dispatchLog)) =>
             /\ dispatchLog' = Append(dispatchLog, Head(waiting).id)
             /\ enqueueMtx = "none" ]_vars

\* C15 witness: a range enqueue holding the lock has put a batch of two
\* tasks in front of a waiting task while the scheduler, about to take the
\* front task, waits for the lock
C15_Witness ==
    /\ Concurrency >= 1
    /\ enqueueMtx = "enqueue"
    /\ schedPc = "assign"
    /\ Len(waiting) = 3
    /\ waiting[1].id = 2
    /\ waiting[2].id = 3
    /\ waiting[3].id = 1

\* C16: RunningCount changes only by the scheduler's increment, once after
\* each acceptance and never on a rejection, and by an executor's decrement,
\* once for each task that returns; so outside the scheduler's section
\* between acceptance and increment it is the number of tasks accepted
\* minus the number of completions reported, and inside it one less.
C16_RunningAccounting ==
    /\ [][ (running' # running) =>
             \/ /\ schedPc = "increment" /\ schedPc' # "increment"
                /\ running' = running + 1
                /\ reported' = reported
             \/ /\ running' = running - 1
                /\ \E w \in Slots : /\ workers[w].st = "busy"
                                     /\ workers'[w].st # "busy"
                                     /\ workers[w].task \notin reported
                                     /\ reported' = reported \cup {workers[w].task}
                /\ dispatchLog' = dispatchLog /\ schedPc' = schedPc ]_vars
    /\ [][ (Len(dispatchLog') > Len(dispatchLog)) =>
             /\ schedPc' = "increment" /\ running' = running
             /\ Len(dispatchLog') = Len(dispatchLog) + 1 ]_vars
    /\ [][ (schedPc = "increment" /\ schedPc' # "increment") =>
             running' = running + 1 ]_vars
    /\ [][ RejectStep => running' = running ]_vars
    /\ [][ (reported' # reported) => running' = running - 1 ]_vars
    /\ [](running = Len(dispatchLog) - Cardinality(reported)
                      - (IF schedPc = "increment" THEN 1 ELSE 0))

\* C16 witness: outside the scheduler's section, three tasks have been
\* accepted, one completion has been reported and RunningCount is 2
C16_Witness ==
    /\ schedPc # "increment"
    /\ Len(dispatchLog) = MaxTasks
    /\ Cardinality(reported) = 1
    /\ running = 2
    /\ InFlight # {}

\* C17: the step in which clear() takes the lock empties the waiting queue
\* and the step in which it returns sets HasWaitingFlag to false; neither
\* changes RunningCount, ActiveFlag, a worker or the record of started and
\* completed tasks; a task in flight leaves its worker only by reporting its
\* completion with one decrement of RunningCount; and with tasks that
\* return, every task in flight while clear() holds the lock comes to report
\* its completion.
C17_ClearOnlyTouchesWaiting ==
    /\ [][ (enqueueMtx = "none" /\ enqueueMtx' = "clear") =>
             /\ waiting' = << >>
             /\ cleared' = cleared \cup IdsOf(waiting)
             /\ UNCHANGED << running, active, workers, dispatchLog, finished,
                             reported, concurrency >> ]_vars
    /\ [][ (enqueueMtx = "clear" /\ enqueueMtx' = "none") =>
             /\ waiting = << >> /\ waiting' = << >>
             /\ ~hasWaiting'
             /\ UNCHANGED << running, active, workers, dispatchLog, finished,
                             reported, concurrency >> ]_vars
    /\ [][ \A id \in InFlight :
              id \notin InFlight' =>
                  /\ reported' = reported \cup {id}
                  /\ id \notin reported
                  /\ running' = running - 1 ]_vars
    /\ \A id \in TaskIds :
          (id \in InFlight /\ enqueueMtx = "clear") ~> (id \in reported)

\* C17 witness: clear() holds the lock and has discarded a waiting task while
\* every worker is executing a task
C17_Witness ==
    /\ Concurrency >= 2
    /\ enqueueMtx = "clear"
    /\ waiting = << >>
    /\ hasWaiting
    /\ cleared # {}
    /\ Cardinality(InFlight) = Concurrency
    /\ running = Concurrency

\* C19: whenever no thread holds the queue lock and HasWaitingFlag is false,
\* the waiting queue is empty; so empty() is not true while a task whose
\* enqueue call has returned has been neither started nor removed nor
\* cleared.
C19_FlagNeverHidesWork ==
    (enqueueMtx = "none" /\ ~hasWaiting) =>
        /\ waiting = << >>
        /\ Empty
        /\ \A id \in 1..submitted :
              id \in Dispatched \cup RemovedIds \cup cleared

\* C19 witness: the lock is free and the flag false after three submitted
\* tasks have gone three ways: one started, one removed, one cleared
C19_Witness ==
    /\ enqueueMtx = "none"
    /\ ~hasWaiting
    /\ submitted = 3
    /\ Cardinality(Dispatched) = 1
    /\ Cardinality(RemovedIds) = 1
    /\ Cardinality(cleared) = 1

\* from some point on the queue is complete for good: nothing waiting
\* according to the flag, and RunningCount 0
StaysComplete == <>[](~hasWaiting /\ running = 0)

\* C20: if the queue becomes complete and stays complete, a thread blocked
\* in wait() is eventually woken and returns from wait(), also when a
\* broadcast fell between its reads of the predicate and its blocking.
C20_NoLostWakeup ==
    StaysComplete => ((waitPc = "blocked") ~> (waitPc = "returned"))

\* C20 witness: the thread in wait() read a non-empty queue and is blocked,
\* the tasks have all been started and completed since, and the scheduler
\* has already passed its broadcast for the complete queue
C20_Witness ==
    /\ Concurrency >= 1
    /\ waitPc = "blocked"
    /\ ~hasWaiting
    /\ running = 0
    /\ waiting = << >>
    /\ InFlight = {}
    /\ Len(dispatchLog) >= 2
    /\ Dispatched = reported
    /\ schedPc = "loop"
    /\ enqueueMtx = "none"

====
